---------------------------- MODULE Spec2Model ----------------------------
(***************************************************************************)
(* A model of crawly.py: the hashtag crawler HashTagSearch, its example    *)
(* subclass HashTagSearchExample, the value classes InstagramUser and      *)
(* InstagramPost, and the entry point.                                     *)
(*                                                                         *)
(* Encoding of Python values:                                              *)
(*   str    a tuple of one-character strings, "#ad" is <<"#","a","d">>     *)
(*   None   the tuple <<"None">>, which is no str because "None" is not a  *)
(*          single character                                               *)
(*   dict   a record; `k in d` is  k \in DOMAIN d                          *)
(*   list   a tuple                                                        *)
(***************************************************************************)
EXTENDS Integers, Sequences, FiniteSets, TLC

VARIABLES
    pc,            \* position of the process
    run,           \* number of the process run (the script may be run again)
    csrf_token,    \* HashTagSearch.csrf_token
    cookie_string, \* HashTagSearch.cookie_string
    total_images,  \* HashTagSearch.total_images
    total_posts,   \* HashTagSearchExample.total_posts
    nodes,         \* local `nodes` of extract_recent_tag
    cursor,        \* local `cursor` of extract_recent_tag
    last_cursor,   \* local `last_cursor` of extract_recent_tag
    store,         \* the sink's stored records (outlives the run)
    new,           \* Inserted outcomes tallied by this run
    duplicate,     \* Duplicate outcomes tallied by this run
    reported,      \* the lines the entry point has logged
    hist,          \* history: facts about the requests of this run
    sink,          \* history: what was handed to the sink, and its outcomes
    hcaption,      \* the caption of the post hashtags() is called on
    hdone,         \* whether hashtags() has been called on it
    hresult,       \* what the call returned
    default_tags,  \* the list object that is the default of InstagramPost's `tags`
    nbatches,      \* the batches extract_instagram_posts is called on, in order
    ncalls,        \* how many of these calls have been made
    nresults       \* what the calls returned, in order

vars == <<pc, run, csrf_token, cookie_string, total_images, total_posts, nodes,
          cursor, last_cursor, store, new, duplicate, reported, hist, sink,
          hcaption, hdone, hresult, default_tags, nbatches, ncalls, nresults>>

hashtagVars == <<hcaption, hdone, hresult>>

normalizeVars == <<nbatches, ncalls, nresults>>

crawlerVars == <<pc, run, csrf_token, cookie_string, total_images, total_posts,
                 nodes, cursor, last_cursor, store, new, duplicate, reported,
                 hist, sink>>

-----------------------------------------------------------------------------
(* Bounds of the model *)

MaxId == 1       \* post ids 1..MaxId in the feed's batches
MaxBatch == 1    \* nodes per batch (the pages of the scenarios apart)
MaxCursor == 1   \* distinct cursor values the feed hands out, None apart
MaxPages == 1    \* paginate requests per run
MaxRuns == 2     \* runs of the process against the same sink
MaxLen == 4      \* characters of a caption given to hashtags()

(* Program constants *)

request_retries == 3
error_timeout == 10

-----------------------------------------------------------------------------
(* Python values *)

None == <<"None">>

RECURSIVE SeqsUpTo(_, _)
SeqsUpTo(S, n) ==
    IF n = 0 THEN {<<>>}
    ELSE LET shorter == SeqsUpTo(S, n - 1)
         IN  shorter \cup {Append(s, x) : s \in {t \in shorter : Len(t) = n - 1}, x \in S}

Drop(d, k) == [f \in DOMAIN d \ {k} |-> d[f]]

Letters ==
    {"a","b","c","d","e","f","g","h","i","j","k","l","m","n","o","p","q","r","s",
     "t","u","v","w","x","y","z"}
Capitals ==
    {"A","B","C","D","E","F","G","H","I","J","K","L","M","N","O","P","Q","R","S",
     "T","U","V","W","X","Y","Z"}
Digits == {"0","1","2","3","4","5","6","7","8","9"}


-----------------------------------------------------------------------------
(* InstagramUser and InstagramPost *)

InstagramUser(user_id, username, is_private) ==
    [id |-> user_id, username |-> username, bio |-> None, followers_count |-> None,
     following_count |-> None, is_private |-> is_private]

InstagramPost(post_id, code, user, caption, comments, likes, img_small, img_large, is_video, created_at) ==
    [post_id |-> post_id, code |-> code, caption |-> caption, tags |-> default_tags,
     comments |-> comments, likes |-> likes, user |-> user, img_small |-> img_small,
     img_large |-> img_large, is_video |-> is_video, created_at |-> created_at]

(* The character class [a-zA-Z0-9] of the pattern in hashtags() *)
IsAlnum(c) == c \in Letters \cup Capitals \cup Digits

(* The end of the longest run of [a-zA-Z0-9] that starts at s[i] (i - 1 when
   s[i] is not in the class): the greedy `+` of the pattern. *)
RECURSIVE RunEnd(_, _)
RunEnd(s, i) ==
    IF i <= Len(s) /\ IsAlnum(s[i]) THEN RunEnd(s, i + 1) ELSE i - 1

(* FindAll with the pattern "#[a-zA-Z0-9]*": a bare '#' matches too. *)
RECURSIVE FindAllStar(_, _)
FindAllStar(s, i) ==
    IF i > Len(s) THEN <<>>
    ELSE IF s[i] = "#"
         THEN <<SubSeq(s, i, RunEnd(s, i + 1))>> \o FindAllStar(s, RunEnd(s, i + 1) + 1)
         ELSE FindAllStar(s, i + 1)

(* re.findall("#[a-zA-Z0-9]+", s) from position i on: the scan tries a match at
   i, and resumes after the match when there is one, at i + 1 when not. *)
RECURSIVE FindAll(_, _)
FindAll(s, i) ==
    IF i > Len(s) THEN <<>>
    ELSE IF s[i] = "#" /\ RunEnd(s, i + 1) >= i + 1
         THEN <<SubSeq(s, i, RunEnd(s, i + 1))>> \o FindAll(s, RunEnd(s, i + 1) + 1)
         ELSE FindAll(s, i + 1)

(* InstagramPost.hashtags, of a post's caption *)
hashtags(caption) ==
    IF caption = None THEN <<>> ELSE FindAll(caption, 1)

-----------------------------------------------------------------------------
(* HashTagSearch.extract_owner_details and extract_instagram_posts.  A function
   that can raise returns [raised |-> TRUE] or [raised |-> FALSE, value |-> v]. *)

Raise == [raised |-> TRUE]
Returns(v) == [raised |-> FALSE, value |-> v]

(* extract_owner_details reading owner['username'] with no test of the key *)
extractOwnerStrict(owner) ==
    IF "id" \in DOMAIN owner /\ "username" \in DOMAIN owner
    THEN Returns(InstagramUser(owner.id, owner.username, FALSE))
    ELSE Raise

(* owner['id'] raises KeyError when the key is missing.  Line 200 assigns the
   local is_private to itself, so the owner's value is never read. *)
extract_owner_details(owner) ==
    LET username == IF "username" \in DOMAIN owner THEN owner.username ELSE None
        is_private0 == FALSE
        is_private == IF "is_private" \in DOMAIN owner THEN is_private0 ELSE is_private0
    IN  IF "id" \in DOMAIN owner
        THEN Returns(InstagramUser(owner.id, username, is_private))
        ELSE Raise

(* The subscripts of one loop iteration that raise KeyError on a missing key *)
NodeKeys ==
    {"owner", "id", "code", "comments", "likes", "thumbnail_src", "display_src",
     "date", "is_video"}

(* One iteration of the loop of extract_instagram_posts *)
ExtractPost(node) ==
    IF ~(NodeKeys \subseteq DOMAIN node) THEN Raise
    ELSE IF "count" \notin DOMAIN node.comments \/ "count" \notin DOMAIN node.likes
    THEN Raise
    ELSE LET user == extract_owner_details(node.owner)
             text == IF "caption" \in DOMAIN node THEN node.caption ELSE None
         IN  IF user.raised THEN Raise
             ELSE Returns(InstagramPost(node.id, node.code, user.value, text,
                                       node.comments.count, node.likes.count,
                                       node.thumbnail_src, node.display_src,
                                       node.is_video, node.date))

(* extract_instagram_posts with a loop that stops one node early *)
extractAllButLast(batch) ==
    IF \E i \in 1..Len(batch) : ExtractPost(batch[i]).raised
    THEN Raise
    ELSE Returns([i \in 1..(Len(batch) - 1) |-> ExtractPost(batch[i]).value])

(* extract_instagram_posts putting each post at the front of the list *)
extractReversed(batch) ==
    IF \E i \in 1..Len(batch) : ExtractPost(batch[i]).raised
    THEN Raise
    ELSE Returns([i \in 1..Len(batch) |-> ExtractPost(batch[Len(batch) + 1 - i]).value])

(* An exception in any iteration leaves the function: no post is returned. *)
extract_instagram_posts(batch) ==
    IF \E i \in 1..Len(batch) : ExtractPost(batch[i]).raised
    THEN Raise
    ELSE Returns([i \in 1..Len(batch) |-> ExtractPost(batch[i]).value])

-----------------------------------------------------------------------------
(* The feed: the nodes, batches and responses the requests can get *)

Plain == <<"h", "i">>
AdCaption == <<"#", "a", "d">>

Owner(i) == [id |-> 10 + i, username |-> <<"u">>, is_private |-> TRUE]

(* The Flat variant: the fields directly on the node *)
FlatNode(i, caption) ==
    [id |-> i, code |-> <<"c">>, owner |-> Owner(i), caption |-> caption,
     comments |-> [count |-> 1], likes |-> [count |-> 2], thumbnail_src |-> <<"s">>,
     display_src |-> <<"l">>, date |-> 100 + i, is_video |-> FALSE]

(* The Nested variant: the same data one level deeper, under `node` *)
NestedNode(i, caption) ==
    [node |->
        [id |-> i, shortcode |-> <<"c">>, owner |-> Owner(i),
         edge_media_to_caption |-> [edges |-> <<[node |-> [text |-> caption]]>>],
         edge_media_to_comment |-> [count |-> 1], edge_liked_by |-> [count |-> 2],
         thumbnail_src |-> <<"s">>, display_url |-> <<"l">>,
         taken_at_timestamp |-> 100 + i, is_video |-> FALSE]]

(* Well-formed Flat nodes: one per post id, and the post 1 once more with another
   caption, which carries the hashtag #ad. *)
GoodNodes == {FlatNode(i, Plain) : i \in 1..MaxId} \cup {FlatNode(1, AdCaption)}

Nodes ==
    GoodNodes \cup {Drop(FlatNode(1, Plain), "id"), Drop(FlatNode(1, Plain), "code"),
                    NestedNode(1, Plain)}

(* The page of the end-to-end scenario: five nodes with the post ids 1..5 *)
ScenarioPage == [i \in 1..5 |-> FlatNode(i, Plain)]

(* Pages with a node that lacks a required field among well-formed nodes *)
MalformedPages ==
    {<<Drop(FlatNode(1, Plain), "id"), FlatNode(2, Plain)>>,
     <<FlatNode(2, Plain), Drop(FlatNode(1, Plain), "code")>>}

(* The page of the schema scenario: the same data as a Flat and as a Nested node *)
MixedPage == <<FlatNode(1, Plain), NestedNode(1, Plain)>>

(* The page of the exclusion scenario: a post with the hashtag #ad and one without *)
AdPage == <<FlatNode(1, AdCaption), FlatNode(2, Plain)>>

Batches ==
    SeqsUpTo(Nodes, MaxBatch) \cup {ScenarioPage, MixedPage, AdPage} \cup MalformedPages

CursorNames == <<"p", "q", "r", "s", "t", "u", "v", "w">>
Cursors == {<<CursorNames[i]>> : i \in 1..MaxCursor} \cup {None}


(* What a request can come back with: an exception (network error, a body that
   is not JSON), or a JSON document. *)
Failure == [failed |-> TRUE]
Json(d) == [failed |-> FALSE, json |-> d]

ErrorShape == [status |-> <<"f">>]

(* requests.get(...).json() of the tag's landing resource *)
FirstResponses ==
    {Failure, Json(ErrorShape)}
    \cup {Json([tag |-> [media |-> [nodes |-> b, page_info |-> [end_cursor |-> c]]]]) :
            b \in Batches, c \in Cursors}

(* requests.post(...).json() of the query resource *)
PageResponses ==
    {Failure, Json(ErrorShape), Json([media |-> [count |-> 0]])}
    \cup {Json([media |-> [nodes |-> b]]) : b \in Batches}
    \cup {Json([media |-> [nodes |-> b, page_info |-> [has_next_page |-> TRUE]]]) :
            b \in Batches}
    \cup {Json([media |-> [nodes |-> b, page_info |-> [end_cursor |-> c]]]) :
            b \in Batches, c \in Cursors}

(* resp.cookies of requests.head(instagram_root) *)
CookieJars ==
    {[mid |-> <<"m">>, csrftoken |-> <<"t">>], [mid |-> <<"m">>],
     [csrftoken |-> <<"t">>]}

-----------------------------------------------------------------------------
(* The sink.  HashTagSearch.save_results is abstract ("Implement yourself");
   the store behind it is the keyed store of the design: insert answers
   Inserted, or Duplicate when the post_id is already stored. *)

PostIds == (1..MaxId) \cup {ScenarioPage[i].id : i \in DOMAIN ScenarioPage}

StoredIds(st) == {r.post_id : r \in st}

(* An insert that does not look at the post ids already stored *)
insertUnchecked(post, st) == [outcome |-> "Inserted", store |-> st \cup {post}]

insert(post, st) ==
    IF post.post_id \in StoredIds(st)
    THEN [outcome |-> "Duplicate", store |-> st]
    ELSE [outcome |-> "Inserted", store |-> st \cup {post}]

(* The sink's calls for the posts of one page, in their order: the store after
   them and the outcome of each. *)
RECURSIVE InsertAll(_, _)
InsertAll(posts, st) ==
    IF posts = <<>> THEN [store |-> st, outcomes |-> <<>>]
    ELSE LET first == insert(Head(posts), st)
             rest == InsertAll(Tail(posts), first.store)
         IN  [store |-> rest.store, outcomes |-> <<first.outcome>> \o rest.outcomes]

Count(outcomes, o) == Cardinality({i \in DOMAIN outcomes : outcomes[i] = o})

-----------------------------------------------------------------------------
(* The state after construction *)

(* pc: "main"      the entry point, before the crawler is constructed
       "first"     extract_recent_tag, at the request of the first page
       "loop"      at the test of the while loop
       "next"      in get_next_results, at the request of the next page
       "returned"  extract_recent_tag has returned
       "raised"    extract_recent_tag was left by an exception
       "exit"      the entry point has ended
       "crashed"   the process was ended by an exception nothing caught *)

(* hist: requests   paginate requests issued by this run
         sent       the cursor the most recent paginate request carried
         fetch      how the most recent page request ended: "none" before the
                    first, "ok" with a batch, "shape" with a JSON document that
                    has no media/nodes, "failed" with an exception
         attempts   requests issued for the page requested most recently
         slept      seconds slept between attempts
         echoed     a paginate request came back with the cursor it carried
                    and a non-empty batch
         after_echo paginate requests issued after the first such echo
         bootstraps requests for the cookies issued by this run
         batch_total  the sum of the sizes of the batches the loop body has
                    handed over *)
NoHistory ==
    [requests |-> 0, sent |-> None, fetch |-> "none", attempts |-> 0, slept |-> 0,
     echoed |-> FALSE, after_echo |-> 0, bootstraps |-> 0, batch_total |-> 0]

(* sink: page      the posts the loop body handed to save_results, while the
                   loop is at the request of the next page
         calls     calls of save_results in this run
         handed    posts handed to save_results in this run
         at_start  the post ids stored when this run started
         before    the post ids stored before the most recent call
         page_new, page_duplicate   the outcomes of the most recent call
         tried     the post ids handed to the sink, over all runs
         inserted  for each post id, the number of Inserted outcomes of its
                   inserts, over all runs
         early     the number of Duplicate outcomes that came before the first
                   Inserted one of the same post id, over all runs *)
NoSink(stored, tried, inserted, early) ==
    [page |-> <<>>, calls |-> 0, handed |-> 0, at_start |-> stored, before |-> stored,
     page_new |-> 0, page_duplicate |-> 0, tried |-> tried, inserted |-> inserted,
     early |-> early]

InitCrawler ==
    /\ pc = "main"
    /\ run = 1
    /\ csrf_token = None
    /\ cookie_string = None
    /\ total_images = 0
    /\ total_posts = 0
    /\ nodes = <<>>
    /\ cursor = None
    /\ last_cursor = None
    /\ store = {}
    /\ new = 0
    /\ duplicate = 0
    /\ reported = <<>>
    /\ hist = NoHistory
    /\ sink = NoSink({}, {}, [i \in PostIds |-> 0], 0)
    /\ default_tags = <<>>

Init ==
    /\ InitCrawler
    /\ hcaption = None
    /\ hdone = FALSE
    /\ hresult = <<>>
    /\ nbatches = <<>>
    /\ ncalls = 0
    /\ nresults = <<>>

-----------------------------------------------------------------------------
(* HashTagSearchExample() : HashTagSearch.__init__ with get_csrf_and_cookie_string.
   resp.cookies[...] raises KeyError on a missing cookie; the constructor is called
   outside the try of the entry point, so the exception ends the process. *)

(* get_csrf_and_cookie_string reading the cookies with .get(): a missing cookie
   gives None and nothing is raised. *)
getCookiesOrNone(cookies) ==
    IF "mid" \in DOMAIN cookies /\ "csrftoken" \in DOMAIN cookies
    THEN Returns(<<cookies.csrftoken,
                  <<"m", "i", "d", "=">> \o cookies.mid
                      \o <<";", " ", "c", "s", "r", "f", "t", "o", "k", "e", "n", "=">>
                      \o cookies.csrftoken \o <<";">> >>)
    ELSE Returns(<<None, None>>)

get_csrf_and_cookie_string(cookies) ==
    IF "mid" \in DOMAIN cookies /\ "csrftoken" \in DOMAIN cookies
    THEN Returns(<<cookies.csrftoken,
                  <<"m", "i", "d", "=">> \o cookies.mid
                      \o <<";", " ", "c", "s", "r", "f", "t", "o", "k", "e", "n", "=">>
                      \o cookies.csrftoken \o <<";">> >>)
    ELSE Raise

Construct(head) ==
    /\ pc = "main"
    /\ LET got == IF head.failed THEN Raise ELSE get_csrf_and_cookie_string(head.json)
       IN  IF got.raised
           THEN /\ pc' = "crashed"
                /\ UNCHANGED <<csrf_token, cookie_string>>
           ELSE /\ pc' = "first"
                /\ csrf_token' = got.value[1]
                /\ cookie_string' = got.value[2]
    /\ total_images' = 0
    /\ total_posts' = 0
    /\ hist' = [hist EXCEPT !.bootstraps = @ + 1]
    /\ UNCHANGED <<run, nodes, cursor, last_cursor, store, new, duplicate, reported,
                   sink, hashtagVars, default_tags, normalizeVars>>

-----------------------------------------------------------------------------
(* extract_recent_tag *)

(* Lines 114-117: the first page.  An exception of the request, of .json() or of
   a subscript leaves extract_recent_tag. *)
FirstPage(resp) ==
    /\ pc = "first"
    /\ IF resp.failed \/ "tag" \notin DOMAIN resp.json
       THEN /\ pc' = "raised"
            /\ hist' = [hist EXCEPT !.fetch = "failed", !.attempts = 1]
            /\ UNCHANGED <<nodes, cursor, last_cursor>>
       ELSE /\ nodes' = resp.json.tag.media.nodes
            /\ cursor' = resp.json.tag.media.page_info.end_cursor
            /\ last_cursor' = None
            /\ pc' = "loop"
            /\ hist' = [hist EXCEPT !.fetch = "ok", !.attempts = 1]
    /\ UNCHANGED <<run, csrf_token, cookie_string, total_images, total_posts, store,
                   new, duplicate, reported, sink, hashtagVars, default_tags, normalizeVars>>

(* The loop test without the comparison of the cursors *)
LoopConditionNoCursor == Len(nodes) # 0

(* Line 118: the test of the while loop *)
LoopCondition == Len(nodes) # 0 /\ cursor # last_cursor

(* save_results counting its calls, not the posts it is given *)
saveResultsCountsCalls(instagram_results) ==
    total_posts' = total_posts + 1

(* HashTagSearchExample.save_results: the abstract method does nothing, the
   loop counts the posts. *)
save_results(instagram_results) ==
    total_posts' = total_posts + Len(instagram_results)

(* The sink behind save_results takes the posts one at a time and the run
   tallies the outcomes. *)
DedupSink(posts) ==
    LET done == InsertAll(posts, store)
        Inserted(id) == {i \in DOMAIN posts : /\ posts[i].post_id = id
                                              /\ done.outcomes[i] = "Inserted"}
        Early == {i \in DOMAIN posts :
                    /\ done.outcomes[i] = "Duplicate"
                    /\ sink.inserted[posts[i].post_id] = 0
                    /\ \A j \in 1..i : posts[j].post_id = posts[i].post_id
                                          => done.outcomes[j] # "Inserted"}
    IN  /\ store' = done.store
        /\ new' = new + Count(done.outcomes, "Inserted")
        /\ duplicate' = duplicate + Count(done.outcomes, "Duplicate")
        /\ sink' = [sink EXCEPT
                      !.page = posts,
                      !.calls = @ + 1,
                      !.handed = @ + Len(posts),
                      !.before = StoredIds(store),
                      !.tried = @ \cup {posts[i].post_id : i \in DOMAIN posts},
                      !.page_new = Count(done.outcomes, "Inserted"),
                      !.page_duplicate = Count(done.outcomes, "Duplicate"),
                      !.inserted = [id \in PostIds |-> @[id] + Cardinality(Inserted(id))],
                      !.early = @ + Cardinality(Early)]

(* The body of the loop without line 123: last_cursor keeps its value. *)
LoopBodyKeepsLastCursor ==
    /\ pc = "loop"
    /\ LoopCondition
    /\ LET instagram_posts == extract_instagram_posts(nodes)
       IN  IF instagram_posts.raised
           THEN /\ pc' = "raised"
                /\ sink' = [sink EXCEPT !.page = <<>>]
                /\ UNCHANGED <<total_images, total_posts, store, new, duplicate, hist>>
           ELSE /\ total_images' = total_images + Len(instagram_posts.value)
                /\ save_results(instagram_posts.value)
                /\ DedupSink(instagram_posts.value)
                /\ hist' = [hist EXCEPT !.batch_total = @ + Len(nodes)]
                /\ pc' = "next"
    /\ UNCHANGED <<run, csrf_token, cookie_string, nodes, cursor, last_cursor, reported,
                   hashtagVars, default_tags, normalizeVars>>

(* Lines 119-123: the body of the loop, up to the request of the next page.  An
   exception of extract_instagram_posts leaves extract_recent_tag. *)
LoopBody ==
    /\ pc = "loop"
    /\ LoopCondition
    /\ LET instagram_posts == extract_instagram_posts(nodes)
       IN  IF instagram_posts.raised
           THEN /\ pc' = "raised"
                /\ sink' = [sink EXCEPT !.page = <<>>]
                /\ UNCHANGED <<total_images, total_posts, store, new, duplicate,
                               last_cursor, hist>>
           ELSE /\ total_images' = total_images + Len(instagram_posts.value)
                /\ save_results(instagram_posts.value)
                /\ DedupSink(instagram_posts.value)
                /\ last_cursor' = cursor
                /\ hist' = [hist EXCEPT !.batch_total = @ + Len(nodes)]
                /\ pc' = "next"
    /\ UNCHANGED <<run, csrf_token, cookie_string, nodes, cursor, reported,
                   hashtagVars, default_tags, normalizeVars>>

(* The loop is left: extract_recent_tag returns. *)
Return ==
    /\ pc = "loop"
    /\ ~LoopCondition
    /\ pc' = "returned"
    /\ UNCHANGED <<run, csrf_token, cookie_string, total_images, total_posts, nodes,
                   cursor, last_cursor, store, new, duplicate, reported, hist, sink,
                   hashtagVars, default_tags, normalizeVars>>

(* get_next_results(tag, cursor) on the response `resp`: the pair it returns.
   Every exception of the try block is logged and swallowed; one request is
   issued, whatever comes back. *)
get_next_results(resp, cur) ==
    IF resp.failed THEN <<<<>>, cur>>
    ELSE LET response == resp.json
         IN  IF "media" \in DOMAIN response /\ "nodes" \in DOMAIN response.media
             THEN IF /\ "page_info" \in DOMAIN response.media
                     /\ "end_cursor" \in DOMAIN response.media.page_info
                  THEN <<response.media.nodes, response.media.page_info.end_cursor>>
                  ELSE <<response.media.nodes, cur>>
             ELSE <<<<>>, cur>>

FetchKind(resp) ==
    IF resp.failed THEN "failed"
    ELSE IF "media" \in DOMAIN resp.json /\ "nodes" \in DOMAIN resp.json.media
         THEN "ok" ELSE "shape"

(* Line 124: the request of the next page and the assignment of what it returns *)
GetNextResults(resp) ==
    /\ pc = "next"
    /\ hist.requests < MaxPages
    /\ LET got == get_next_results(resp, cursor)
           echo == got[1] # <<>> /\ got[2] = cursor
       IN  /\ nodes' = got[1]
           /\ cursor' = got[2]
           /\ hist' = [hist EXCEPT
                         !.requests = @ + 1,
                         !.sent = cursor,
                         !.fetch = FetchKind(resp),
                         !.attempts = 1,
                         !.echoed = @ \/ echo,
                         !.after_echo = IF hist.echoed THEN @ + 1 ELSE @]
    /\ pc' = "loop"
    /\ sink' = [sink EXCEPT !.page = <<>>]
    /\ UNCHANGED <<run, csrf_token, cookie_string, total_images, total_posts,
                   last_cursor, store, new, duplicate, reported, hcaption, hdone,
                   hresult, default_tags, normalizeVars>>

-----------------------------------------------------------------------------
(* The entry point, lines 294-303 *)

(* The except block: the only place that logs the posts and the elapsed time.
   The elapsed time is a reading of the clock, which the model leaves out. *)
MainExcept ==
    /\ pc = "raised"
    /\ reported' = <<[line |-> "Posts", value |-> total_images],
                      [line |-> "Elapsed time"], [line |-> "exception"]>>
    /\ pc' = "exit"
    /\ UNCHANGED <<run, csrf_token, cookie_string, total_images, total_posts, nodes,
                   cursor, last_cursor, store, new, duplicate, hist, sink, hcaption,
                   hdone, hresult, default_tags, normalizeVars>>

(* extract_recent_tag returned: the try statement has no else or finally. *)
MainEnd ==
    /\ pc = "returned"
    /\ pc' = "exit"
    /\ UNCHANGED <<run, csrf_token, cookie_string, total_images, total_posts, nodes,
                   cursor, last_cursor, store, new, duplicate, reported, hist, sink,
                   hashtagVars, default_tags, normalizeVars>>

(* The script is run again: a new process, the same sink. *)
Rerun ==
    /\ pc \in {"exit", "crashed"}
    /\ run < MaxRuns
    /\ run' = run + 1
    /\ pc' = "main"
    /\ csrf_token' = None
    /\ cookie_string' = None
    /\ total_images' = 0
    /\ total_posts' = 0
    /\ nodes' = <<>>
    /\ cursor' = None
    /\ last_cursor' = None
    /\ new' = 0
    /\ duplicate' = 0
    /\ reported' = <<>>
    /\ hist' = NoHistory
    /\ sink' = NoSink(StoredIds(store), sink.tried, sink.inserted, sink.early)
    /\ UNCHANGED <<store, hashtagVars, default_tags, normalizeVars>>

Next ==
    \/ \E head \in {Failure} \cup {Json(c) : c \in CookieJars} : Construct(head)
    \/ \E resp \in FirstResponses : FirstPage(resp)
    \/ LoopBody
    \/ Return
    \/ \E resp \in PageResponses : GetNextResults(resp)
    \/ MainExcept
    \/ MainEnd
    \/ Rerun

Spec == Init /\ [][Next]_vars

-----------------------------------------------------------------------------
(* InstagramPost.hashtags on its own: a post with the caption hcaption, and one
   call of hashtags() on it. *)

Alphabet == {"#", "a", "9", "-", " "}

ExampleCaption ==
    <<"G","r","e","a","t"," ","d","a","y","!"," ","#","s","u","n"," ",
      "#","f","u","n","2","0","2","3"," ","#","a","-","b">>

Captions == SeqsUpTo(Alphabet, MaxLen) \cup {ExampleCaption, None}

InitHashtags ==
    /\ InitCrawler
    /\ hcaption \in Captions
    /\ hdone = FALSE
    /\ hresult = <<>>
    /\ nbatches = <<>>
    /\ ncalls = 0
    /\ nresults = <<>>

CallHashtags ==
    /\ ~hdone
    /\ hdone' = TRUE
    /\ hresult' = hashtags(hcaption)
    /\ UNCHANGED <<hcaption, crawlerVars, default_tags, normalizeVars>>

SpecHashtags == InitHashtags /\ [][CallHashtags]_vars

-----------------------------------------------------------------------------
(* extract_instagram_posts on its own: the calls of one process, one after the
   other, on the batches of nbatches.  The process has one list object as the
   default of the parameter `tags` of InstagramPost.__init__ (line 35), which
   every post built without tags refers to; no line of the source writes to it. *)

PublicOwner == [Owner(1) EXCEPT !.is_private = FALSE]

(* Nodes with and without the optional fields, and one without a required one *)
NormalizeNodes ==
    {FlatNode(1, Plain),
     [FlatNode(1, AdCaption) EXCEPT !.owner = PublicOwner],
     Drop(FlatNode(1, Plain), "caption"),
     [FlatNode(1, Plain) EXCEPT !.owner = Drop(Owner(1), "username")],
     [FlatNode(1, Plain) EXCEPT !.owner = Drop(Owner(1), "is_private")],
     Drop(FlatNode(1, Plain), "id")}

NormalizeBatches == SeqsUpTo(NormalizeNodes, MaxBatch + 1)

InitNormalize ==
    /\ InitCrawler
    /\ hcaption = None
    /\ hdone = FALSE
    /\ hresult = <<>>
    /\ nbatches \in NormalizeBatches \X NormalizeBatches
    /\ ncalls = 0
    /\ nresults = <<>>

(* A call that leaves its posts' post ids in the default list of `tags` *)
CallNormalizeTagging ==
    /\ ncalls < Len(nbatches)
    /\ ncalls' = ncalls + 1
    /\ LET instagram_posts == extract_instagram_posts(nbatches[ncalls + 1])
       IN  /\ nresults' = Append(nresults, instagram_posts)
           /\ default_tags' =
                  IF instagram_posts.raised THEN default_tags
                  ELSE default_tags \o [i \in 1..Len(instagram_posts.value) |->
                                            instagram_posts.value[i].post_id]
    /\ UNCHANGED <<nbatches, crawlerVars, hashtagVars>>

CallNormalize ==
    /\ ncalls < Len(nbatches)
    /\ ncalls' = ncalls + 1
    /\ nresults' = Append(nresults, extract_instagram_posts(nbatches[ncalls + 1]))
    /\ UNCHANGED <<nbatches, default_tags, crawlerVars, hashtagVars>>

SpecNormalize == InitNormalize /\ [][CallNormalize]_vars

-----------------------------------------------------------------------------
(* The claims *)

(* The loop body has worked on the batch in `nodes`: it handed the posts over
   and the loop is at the request of the next page, or it raised. *)
Worked == pc = "next" \/ (pc = "raised" /\ hist.fetch = "ok")

(* C1: once a paginate request has come back with the cursor it carried and a
   non-empty batch, extract_recent_tag ends: it issues no further page request
   (hence at most one), the loop test fails, and all that is left is to return. *)
C1_EchoEndsTheRun ==
    hist.echoed =>
        /\ hist.after_echo <= 1
        /\ pc \in {"loop", "returned", "exit"}
        /\ pc = "loop" => (ENABLED Return /\ ~ENABLED LoopBody)

(* An echo came back with a non-empty batch and extract_recent_tag returned. *)
C1_Witness == hist.echoed /\ pc = "returned" /\ nodes # <<>> /\ cursor = hist.sent

(* C2: over all pages and runs, the inserts of one post id have exactly one
   Inserted outcome, which is the first of them, and the store holds exactly
   one record of that post id; a post id never handed over has neither. *)
C2_OneInsertedPerPostId ==
    /\ sink.early = 0
    /\ \A id \in PostIds :
          /\ sink.inserted[id] = IF id \in sink.tried THEN 1 ELSE 0
          /\ Cardinality({r \in store : r.post_id = id}) = sink.inserted[id]

(* In a second run a post was handed over whose post id was stored already, and
   it came back Duplicate. *)
C2_Witness ==
    /\ run = 2
    /\ pc = "next"
    /\ sink.page_duplicate >= 1
    /\ \E i \in DOMAIN sink.page : sink.page[i].post_id \in sink.at_start

(* C3: a paginate request that failed is given up only after request_retries
   further requests of the same page, error_timeout seconds apart. *)
C3_FailedFetchIsRetried ==
    (hist.fetch = "failed" /\ hist.requests >= 1) =>
        /\ hist.attempts = 1 + request_retries
        /\ hist.slept = request_retries * error_timeout

(* A Flat node without `id` or without `code` *)
LacksRequired(node) ==
    "node" \notin DOMAIN node /\ ("id" \notin DOMAIN node \/ "code" \notin DOMAIN node)

(* The posts of the nodes of a batch that have every field, in their order *)
RECURSIVE WellFormedPosts(_)
WellFormedPosts(batch) ==
    IF batch = <<>> THEN <<>>
    ELSE (IF ExtractPost(Head(batch)).raised THEN <<>>
          ELSE <<ExtractPost(Head(batch)).value>>) \o WellFormedPosts(Tail(batch))

(* C4: when the only flaw of a batch is nodes without `id` or `code`, those
   nodes alone are skipped: the posts of the other nodes are handed to
   save_results and the loop goes on to the next page. *)
C4_MalformedNodeIsSkipped ==
    (/\ Worked
     /\ \E i \in DOMAIN nodes : LacksRequired(nodes[i])
     /\ \A i \in DOMAIN nodes : LacksRequired(nodes[i]) \/ ~ExtractPost(nodes[i]).raised)
    => (pc = "next" /\ sink.page = WellFormedPosts(nodes))

PageIds == {nodes[i].id : i \in DOMAIN nodes}

(* C5: after a page is handed over, its tally is new = the post ids of the page
   not stored before, duplicate = the rest of its posts; the run's totals are
   the post ids stored since the run started and the rest of the posts handed
   over; and the scenario (five posts, one of them stored, then an empty page)
   ends with new = 4, duplicate = 1. *)
C5_Tallies ==
    /\ pc = "next" =>
          /\ sink.page_new = Cardinality(PageIds \ sink.before)
          /\ sink.page_duplicate = Len(nodes) - sink.page_new
    /\ new = Cardinality(StoredIds(store) \ sink.at_start)
    /\ duplicate = sink.handed - new
    /\ (/\ pc = "returned"
        /\ nodes = <<>>
        /\ sink.calls = 1
        /\ sink.handed = Len(ScenarioPage)
        /\ Cardinality(sink.before \cap {ScenarioPage[i].id : i \in DOMAIN ScenarioPage}) = 1)
       => (new = 4 /\ duplicate = 1)

(* The scenario: the first page of a run had five posts, one stored before, and
   the second page was empty. *)
C5_Witness ==
    /\ pc = "returned"
    /\ nodes = <<>>
    /\ hist.fetch = "ok"
    /\ sink.calls = 1
    /\ sink.handed = 5
    /\ sink.before = {1}
    /\ new = 4
    /\ duplicate = 1

(* C6: a run whose last page request failed ends in a state of its own: it does
   not end as a run does whose last page was empty or whose cursor stood still,
   by extract_recent_tag returning. *)
C6_FailedIsNotExhausted == (pc = "returned") => (hist.fetch # "failed")

(* C7: a process that has ended after a run has logged the posts and the
   elapsed time. *)
C7_EveryRunReports ==
    pc = "exit" =>
        /\ \E i \in DOMAIN reported : reported[i].line = "Posts"
        /\ \E i \in DOMAIN reported : reported[i].line = "Elapsed time"

(* The configured exclusion set of the exclusion scenario *)
ExclusionSet == {AdCaption}

Excluded(post) ==
    \E k \in DOMAIN hashtags(post.caption) : hashtags(post.caption)[k] \in ExclusionSet

(* C8: no post with a hashtag of the exclusion set is handed to the sink, and
   a batch with such a post raises nothing. *)
C8_ExcludedPostsAreDropped ==
    /\ \A i \in DOMAIN sink.page : ~Excluded(sink.page[i])
    /\ (Worked /\ \A i \in DOMAIN nodes : ~ExtractPost(nodes[i]).raised) => pc = "next"

(* The hashtags of a caption as the claim has them: the caption is split on
   whitespace, the tokens that begin with '#' are kept, and every character but
   letters and digits is removed from the rest of each. *)
Whitespace == {" "}

RECURSIVE Split(_, _, _)
Split(s, i, token) ==
    LET done == IF token = <<>> THEN <<>> ELSE <<token>>
    IN  IF i > Len(s) THEN done
        ELSE IF s[i] \in Whitespace THEN done \o Split(s, i + 1, <<>>)
        ELSE Split(s, i + 1, Append(token, s[i]))

Strip(token) == <<"#">> \o SelectSeq(Tail(token), IsAlnum)

ClaimedHashtags(caption) ==
    IF caption = None THEN <<>>
    ELSE LET tokens == SelectSeq(Split(caption, 1, <<>>), LAMBDA t : Head(t) = "#")
         IN  [k \in DOMAIN tokens |-> Strip(tokens[k])]

(* C9 as claimed: hashtags() returns the stripped '#' tokens of the caption. *)
C9_HashtagsAsClaimed == hdone => hresult = ClaimedHashtags(hcaption)

(* The places of a caption where a '#' is followed by a letter or digit *)
Starts(s) == {i \in 1..Len(s) : s[i] = "#" /\ i < Len(s) /\ IsAlnum(s[i + 1])}

(* The last letter or digit of the run that follows the '#' at i *)
LastOfRun(s, i) ==
    CHOOSE j \in (i + 1)..Len(s) :
        /\ \A k \in (i + 1)..j : IsAlnum(s[k])
        /\ j = Len(s) \/ ~IsAlnum(s[j + 1])

ExampleHashtags ==
    <<<<"#", "s", "u", "n">>, <<"#", "f", "u", "n", "2", "0", "2", "3">>, <<"#", "a">>>>

(* C9, amended: hashtags() returns, in caption order and keeping duplicates,
   one entry per '#' of the caption that is followed by an ASCII letter or
   digit, wherever it stands: the '#' and the letters and digits up to the first
   other character.  Nothing is removed from inside a token; the token is cut there.
   The example caption gives #sun, #fun2023, #a; a caption of None gives none. *)
C9_Hashtags ==
    hdone =>
        IF hcaption = None THEN hresult = <<>>
        ELSE /\ Len(hresult) = Cardinality(Starts(hcaption))
             /\ \A i \in Starts(hcaption) :
                   hresult[Cardinality({j \in Starts(hcaption) : j <= i})]
                       = SubSeq(hcaption, i, LastOfRun(hcaption, i))
             /\ hcaption = ExampleCaption => hresult = ExampleHashtags

(* hashtags() was called on the example caption. *)
C9_Witness == hdone /\ hcaption = ExampleCaption /\ hresult = ExampleHashtags

(* The fields of a post the claim compares *)
SameShape(p, q) ==
    /\ p.post_id = q.post_id
    /\ p.code = q.code
    /\ p.user = q.user
    /\ p.caption = q.caption
    /\ p.comments = q.comments
    /\ p.likes = q.likes
    /\ p.img_small = q.img_small
    /\ p.img_large = q.img_large
    /\ p.created_at = q.created_at
    /\ p.is_video = q.is_video

(* C10: a batch of a Flat node and a Nested node with the same data is
   normalized as a whole, to two posts with the same fields. *)
C10_BothVariantsNormalize ==
    (Worked /\ nodes = MixedPage) =>
        /\ pc = "next"
        /\ Len(sink.page) = 2
        /\ SameShape(sink.page[1], sink.page[2])

-----------------------------------------------------------------------------
(* C11: a page of the feed, the first or a later one, is requested only after
   the one request for the cookies of this run gave both the csrf token and the
   cookie string; a run whose request for the cookies gave no credentials ends
   with no page requested and the request for the cookies issued once. *)
C11_NoFetchWithoutCredentials ==
    /\ hist.bootstraps <= 1
    /\ (pc \in {"first", "loop", "next", "returned", "raised"}
            \/ hist.attempts >= 1 \/ hist.requests >= 1)
       => /\ csrf_token # None
          /\ cookie_string # None
          /\ hist.bootstraps = 1
    /\ pc = "crashed"
       => /\ hist.bootstraps = 1
          /\ hist.attempts = 0
          /\ hist.requests = 0
          /\ hist.fetch = "none"
          /\ ~ENABLED (\E resp \in FirstResponses : FirstPage(resp))

(* The request for the cookies gave no credentials and the run has ended. *)
C11_Witness ==
    /\ pc = "crashed"
    /\ hist.bootstraps = 1
    /\ csrf_token = None
    /\ cookie_string = None

-----------------------------------------------------------------------------
(* The posts of the calls made so far, where the call returned *)
Normalized(a) == nresults[a].value

(* C12: a node normalized twice, in one batch or in two, with whatever nodes
   normalized between the two, gives two posts with the same value in every
   field. *)
C12_NormalizationIsDeterministic ==
    \A a, b \in 1..ncalls :
        (~nresults[a].raised /\ ~nresults[b].raised)
        => \A i \in 1..Len(nbatches[a]), j \in 1..Len(nbatches[b]) :
               nbatches[a][i] = nbatches[b][j] => Normalized(a)[i] = Normalized(b)[j]

(* A node was normalized in the first batch and again in the second, after
   another node of the second batch. *)
C12_Witness ==
    /\ ncalls = 2
    /\ ~nresults[1].raised
    /\ ~nresults[2].raised
    /\ Len(nbatches[2]) = 2
    /\ nbatches[2][1] # nbatches[2][2]
    /\ \E i \in 1..Len(nbatches[1]) : nbatches[1][i] = nbatches[2][2]

-----------------------------------------------------------------------------
(* The node has every field whose subscript can raise. *)
HasRequired(node) ==
    /\ NodeKeys \subseteq DOMAIN node
    /\ "count" \in DOMAIN node.comments
    /\ "count" \in DOMAIN node.likes
    /\ "id" \in DOMAIN node.owner

(* C13: a batch whose nodes lack nothing but the caption, the owner's username
   or the owner's is_private is normalized without an exception; the post of a
   node without caption has the caption None and no hashtags, the user of an
   owner without username has the username None, the user of an owner without
   is_private has is_private False. *)
C13_OptionalFieldsDefault ==
    \A a \in 1..ncalls :
        (\A i \in 1..Len(nbatches[a]) : HasRequired(nbatches[a][i]))
        => /\ ~nresults[a].raised
           /\ Len(Normalized(a)) = Len(nbatches[a])
           /\ \A i \in 1..Len(nbatches[a]) :
                  LET node == nbatches[a][i]
                      post == Normalized(a)[i]
                  IN  /\ "caption" \notin DOMAIN node
                         => post.caption = None /\ hashtags(post.caption) = <<>>
                      /\ "username" \notin DOMAIN node.owner
                         => post.user.username = None
                      /\ "is_private" \notin DOMAIN node.owner
                         => post.user.is_private = FALSE

(* A node without caption, one without the owner's username and one without the
   owner's is_private were normalized. *)
C13_Witness ==
    /\ ncalls = 2
    /\ ~nresults[1].raised
    /\ ~nresults[2].raised
    /\ \E i \in 1..Len(nbatches[1]) : "caption" \notin DOMAIN nbatches[1][i]
    /\ \E i \in 1..Len(nbatches[1]) :
           /\ HasRequired(nbatches[1][i])
           /\ "username" \notin DOMAIN nbatches[1][i].owner
    /\ \E i \in 1..Len(nbatches[2]) :
           /\ HasRequired(nbatches[2][i])
           /\ "is_private" \notin DOMAIN nbatches[2][i].owner

-----------------------------------------------------------------------------
(* C14: from the test of the loop the page in `nodes` is worked on exactly when
   the batch is not empty and its cursor is not last_cursor, and the loop is
   left otherwise; at the test last_cursor is the cursor the most recent
   paginate request carried (None before the first), and it is already the
   current cursor when the next page is requested. *)
C14_LoopTest ==
    /\ [](/\ pc = "loop" => (hist.requests >= 1 => last_cursor = hist.sent)
          /\ pc = "loop" => (hist.requests = 0 => last_cursor = None)
          /\ pc = "next" => last_cursor = cursor)
    /\ [][pc = "loop"
            => /\ pc' \in {"next", "raised"} <=> (Len(nodes) # 0 /\ cursor # last_cursor)
               /\ pc' = "returned" <=> ~(Len(nodes) # 0 /\ cursor # last_cursor)]_vars

(* A page that came back from a paginate request is at the test of the loop and
   will be worked on. *)
C14_Witness ==
    /\ pc = "loop"
    /\ hist.requests >= 1
    /\ Len(nodes) # 0
    /\ cursor # last_cursor
    /\ last_cursor # None
    /\ last_cursor = hist.sent

-----------------------------------------------------------------------------
(* C15: extract_recent_tag returns after a paginate response without
   media/nodes, or with an empty batch, only when the page has been requested
   request_retries further times. *)
C15_EmptyShapeIsRetried ==
    (/\ pc = "returned"
     /\ hist.requests >= 1
     /\ hist.fetch = "shape" \/ (hist.fetch = "ok" /\ nodes = <<>>))
    => hist.attempts = 1 + request_retries

-----------------------------------------------------------------------------
(* The nodes of the batch before the first one whose normalization raises *)
NodesBeforeFailure(batch) ==
    Cardinality({k \in 1..Len(batch) :
                    \A j \in 1..k : ~ExtractPost(batch[j]).raised})

(* C16: when the work on a page stops at a node whose normalization raises,
   the posts of the nodes before it are with the sink: the posts handed over in
   this run are those of the pages before and these. *)
C16_PostsReachSinkOneAtATime ==
    (pc = "raised" /\ hist.fetch = "ok")
    => sink.handed = hist.batch_total + NodesBeforeFailure(nodes)

-----------------------------------------------------------------------------
(* C17: save_results is called once for each page worked on, with the posts of
   the page's nodes in the order of the nodes, before the next page is
   requested: at the request of the next page the calls are one more than the
   paginate requests issued, at the test of the loop there are as many. *)
C17_PagesInOrder ==
    /\ pc = "loop" => sink.calls = hist.requests
    /\ pc = "next"
       => /\ sink.calls = hist.requests + 1
          /\ Len(sink.page) = Len(nodes)
          /\ \A i \in 1..Len(nodes) :
                 /\ ~ExtractPost(nodes[i]).raised
                 /\ sink.page[i] = ExtractPost(nodes[i]).value
    /\ pc = "returned" => sink.calls = hist.requests

(* The second page of a run has been handed over. *)
C17_Witness ==
    /\ pc = "next"
    /\ hist.requests = 1
    /\ sink.calls = 2
    /\ Len(sink.page) >= 1

-----------------------------------------------------------------------------
(* C18: extract_recent_tag does not return with a first page whose nodes can
   all be normalized and which was not handed to save_results. *)
C18_FirstPageIsProcessed ==
    (/\ pc = "returned"
     /\ sink.calls = 0
     /\ \A i \in 1..Len(nodes) : ~ExtractPost(nodes[i]).raised)
    => Len(nodes) = 0

-----------------------------------------------------------------------------
(* C19: the user of a normalized node has the is_private of the node's owner,
   and False when the owner has none. *)
C19_IsPrivateIsRead ==
    \A a \in 1..ncalls :
        ~nresults[a].raised
        => \A i \in 1..Len(nbatches[a]) :
               LET owner == nbatches[a][i].owner
               IN  Normalized(a)[i].user.is_private =
                       IF "is_private" \in DOMAIN owner THEN owner.is_private ELSE FALSE

-----------------------------------------------------------------------------
(* C20: in a run total_images is the number of posts handed to save_results,
   which is total_posts; it does not decrease; and when extract_recent_tag has
   returned it is the sum of the sizes of the batches worked on. *)
C20_TotalImages ==
    /\ [](/\ total_images = sink.handed
          /\ total_posts = total_images
          /\ pc = "returned" => total_images = hist.batch_total)
    /\ [][run' = run => total_images' >= total_images]_vars

(* extract_recent_tag has returned after the page of five posts. *)
C20_Witness ==
    /\ pc = "returned"
    /\ sink.calls = 1
    /\ total_images = 5
    /\ total_posts = 5
    /\ hist.batch_total = 5

=============================================================================
